---- MODULE Spec2Model ----
(***************************************************************************)
(* averse: a meal planner.  Model of the ingredient parser, the recipe     *)
(* path derivation, the interactive ingredient loop and the plan command   *)
(* (assignment, grocery compilation, persistence), the recipe listing of   *)
(* the view command and the plan table of the behold command.              *)
(*                                                                         *)
(* Strings are sequences of one-character strings, so that split, join,    *)
(* replace and the path operations are computed character by character.    *)
(***************************************************************************)
EXTENDS Integers, Sequences, FiniteSets, TLC

VARIABLES
    \* ---- recipe path derivation (utils.rs) ----
    path_name,      \* the recipe name handed to get_recipe_out_path
    out_path,       \* the PathBuf it returned
    path_pc,        \* "input" | "done"
    \* ---- ingredient parser (lib.rs) ----
    line,           \* the text handed to Ingredient::from_str
    result,         \* what from_str produced for it
    parse_pc,       \* "off" | "input" | "parsed"
    \* ---- ingredient entry loop (add.rs) ----
    ingredients,    \* add_ingredients: the Vec<Ingredient> accepted so far
    entered,        \* history: the non-empty lines typed so far, in order
    ingr_pc,        \* "off" | "prompt" | "returned" | "panicked"
    \* ---- commands over the two directories (main.rs, add.rs, plan.rs) ----
    recipeFiles,    \* recipe directory: path -> stored recipe
    planFiles,      \* plan directory: path -> stored plan
    plan,           \* the Plan of the running (or last) plan command
    pc,             \* "shell" between commands | "add_recipes" inside the loop
    exit,           \* how the last command ended: "none" | "ok" | "err" | "panic"
    compiled,       \* compile_groceries: "none" | "returned" | "panicked"
    resolved,       \* the Vec<Recipe> to_recipes handed to compile_groceries
    loaded,         \* the Plan last read back by Plan::try_from, with its path
    cmd,            \* the last command that writes: "none" | "add" | "plan"
    plan_dir_before,\* history: the plan directory as the plan command found it
    day_log,        \* history: day_idx -> the names add_recipes pushed for it
    listed,         \* view: what get_jsons and summarize_recipes returned
    beheld          \* behold: n_plans, what get_latest_plans returned, the rows

\* ------------------------------------------------------------------------
\* Bounds
\* ------------------------------------------------------------------------
MaxNameLen == 3
\* words after the unit in a generated ingredient line
MaxNameTokens == 2
\* lines typed into one run of the ingredient loop
MaxEntries == 3
\* assignments per plan, highest day index offered at the day prompt
MaxAssign == 2
MaxDayIdx == 1
\* plan files in the plan directory the behold command reads
MaxPlanFiles == 5
\* largest --n-plans given to the behold command
MaxNPlans == 6

\* ------------------------------------------------------------------------
\* Strings
\* ------------------------------------------------------------------------
\* str::replace for one-character patterns
Replace(s, from, to) == [i \in 1..Len(s) |-> IF s[i] = from THEN to ELSE s[i]]

\* index of the last occurrence of character c in s, 0 when absent
LastIndexOf(s, c) ==
    LET I == {i \in 1..Len(s) : s[i] = c}
    IN  IF I = {} THEN 0 ELSE CHOOSE i \in I : \A j \in I : j <= i

\* index of the first occurrence of character c in s, 0 when absent
FirstIndexOf(s, c) ==
    LET I == {i \in 1..Len(s) : s[i] = c}
    IN  IF I = {} THEN 0 ELSE CHOOSE i \in I : \A j \in I : i <= j

\* str::split on a one-character separator: always at least one piece,
\* consecutive separators give empty pieces
RECURSIVE Split(_, _)
Split(s, sep) ==
    LET i == FirstIndexOf(s, sep)
    IN  IF i = 0 THEN <<s>>
        ELSE <<SubSeq(s, 1, i - 1)>> \o Split(SubSeq(s, i + 1, Len(s)), sep)

\* [T]::join
RECURSIVE Join(_, _)
Join(parts, sep) ==
    IF Len(parts) = 0 THEN <<>>
    ELSE IF Len(parts) = 1 THEN parts[1]
    ELSE parts[1] \o sep \o Join(Tail(parts), sep)

\* all sequences over S of length lo..hi
SeqsOf(S, lo, hi) == UNION {[1..n -> S] : n \in lo..hi}

EndsWith(s, suf) ==
    /\ Len(s) >= Len(suf)
    /\ SubSeq(s, Len(s) - Len(suf) + 1, Len(s)) = suf

\* ------------------------------------------------------------------------
\* Paths (utils.rs: get_recipe_out_path and the std::path calls it makes)
\* ------------------------------------------------------------------------
Slash == "/"
Dot == "."
YAML == <<"y", "a", "m", "l">>
RecipeDir == <<"r">>
PlanDir == <<"p">>

\* characters recipe names are drawn from
NameChars == {"a", " ", "-", "."}
Names == SeqsOf(NameChars, 1, MaxNameLen)

\* Path::join with a relative component: a separator is added unless the
\* base already ends with one
PathJoin(dir, comp) ==
    IF Len(dir) > 0 /\ dir[Len(dir)] # Slash THEN dir \o <<Slash>> \o comp
    ELSE dir \o comp

\* Path::components seen from the back: trailing separators and trailing
\* "." components are not part of the last component
RECURSIVE StripTrailing(_)
StripTrailing(p) ==
    IF Len(p) > 1 /\ p[Len(p)] = Slash THEN StripTrailing(SubSeq(p, 1, Len(p) - 1))
    ELSE IF Len(p) > 2 /\ EndsWith(p, <<Slash, Dot>>)
         THEN StripTrailing(SubSeq(p, 1, Len(p) - 2))
    ELSE p

\* Path::file_name: <<>> stands for None
FileName(p) ==
    LET q == StripTrailing(p)
        f == SubSeq(q, LastIndexOf(q, Slash) + 1, Len(q))
    IN  IF f \in {<<Dot, Dot>>, <<Dot>>, <<Slash>>} THEN <<>> ELSE f

\* Path::file_stem of a file name (rsplit_file_at_dot): the part before the
\* last dot, or the whole name when there is no dot or only a leading one
FileStem(f) ==
    LET i == LastIndexOf(f, Dot)
    IN  IF f = <<Dot, Dot>> \/ i <= 1 THEN f ELSE SubSeq(f, 1, i - 1)

\* Path::extension of a path: the part of the file name after its last dot;
\* <<>> stands for None (no file name, no dot, or only a leading dot)
Extension(p) ==
    LET f == FileName(p)
        i == LastIndexOf(f, Dot)
    IN  IF i <= 1 THEN <<>> ELSE SubSeq(f, i + 1, Len(f))

\* PathBuf::set_extension: truncate right after the file stem, then push
\* "." and the extension; a path without file name is left alone
SetExtension(p, ext) ==
    LET f == FileName(p)
        q == StripTrailing(p)
        start == LastIndexOf(q, Slash)
    IN  IF f = <<>> THEN p
        ELSE SubSeq(q, 1, start + Len(FileStem(f))) \o <<Dot>> \o ext

\* utils.rs get_recipe_out_path
get_recipe_out_path(recipe_dir, name) ==
    SetExtension(PathJoin(recipe_dir, Replace(name, " ", "-")), YAML)

\* ------------------------------------------------------------------------
\* Units (lib.rs)
\* ------------------------------------------------------------------------
\* enum Unit
Unit == {"Can", "Cup", "Gallon", "Gram", "Item", "Kg", "Lb", "Oz", "Tbsp", "Tsp"}

UpperCase == <<"A", "B", "C", "D", "E", "F", "G", "H", "I", "J", "K", "L", "M",
               "N", "O", "P", "Q", "R", "S", "T", "U", "V", "W", "X", "Y", "Z">>
LowerCase == <<"a", "b", "c", "d", "e", "f", "g", "h", "i", "j", "k", "l", "m",
               "n", "o", "p", "q", "r", "s", "t", "u", "v", "w", "x", "y", "z">>

\* str::to_lowercase
ToLower(s) ==
    [i \in 1..Len(s) |->
        IF \E k \in 1..26 : UpperCase[k] = s[i]
        THEN LowerCase[CHOOSE k \in 1..26 : UpperCase[k] = s[i]]
        ELSE s[i]]

\* impl Display for Unit
UnitDisplay(u) ==
    CASE u = "Can" -> <<"C", "a", "n">>
      [] u = "Cup" -> <<"C", "u", "p">>
      [] u = "Gallon" -> <<"G", "a", "l", "l", "o", "n">>
      [] u = "Gram" -> <<"G", "r", "a", "m">>
      [] u = "Item" -> <<"I", "t", "e", "m">>
      [] u = "Kg" -> <<"K", "g">>
      [] u = "Lb" -> <<"L", "b">>
      [] u = "Oz" -> <<"O", "z">>
      [] u = "Tsp" -> <<"T", "s", "p">>
      [] u = "Tbsp" -> <<"T", "b", "s", "p">>

\* impl FromStr for Unit: the match on the lower-cased input; "None" is the
\* Err(InvalidUnit) arm
UnitFromStr(input) ==
    LET t == ToLower(input)
    IN  CASE t = <<"c", "a", "n">> -> "Can"
          [] t = <<"c", "u", "p">> -> "Cup"
          [] t = <<"g", "a", "l", "l", "o", "n">> -> "Gallon"
          [] t = <<"g", "r", "a", "m">> -> "Gram"
          [] t = <<"i", "t", "e", "m">> -> "Item"
          [] t = <<"k", "g">> -> "Kg"
          [] t = <<"l", "b">> -> "Lb"
          [] t = <<"o", "z">> -> "Oz"
          [] t = <<"t", "s", "p">> -> "Tsp"
          [] t = <<"t", "b", "s", "p">> -> "Tbsp"
          [] OTHER -> "None"

\* ------------------------------------------------------------------------
\* Amounts: str::parse::<f32> (lib.rs, Ingredient::from_str)
\* ------------------------------------------------------------------------
Digits == <<"0", "1", "2", "3", "4", "5", "6", "7", "8", "9">>
IsDigit(c) == \E k \in 1..10 : Digits[k] = c
DigitVal(c) == (CHOOSE k \in 1..10 : Digits[k] = c) - 1

\* value of a digit string read as an integer
RECURSIVE DecVal(_)
DecVal(ds) ==
    IF Len(ds) = 0 THEN 0
    ELSE 10 * DecVal(SubSeq(ds, 1, Len(ds) - 1)) + DigitVal(ds[Len(ds)])

\* thousandths denoted by the digits after the decimal point
Thousandths(fs) ==
    LET d(i) == IF i <= Len(fs) THEN DigitVal(fs[i]) ELSE 0
    IN  100 * d(1) + 10 * d(2) + d(3)

\* an f32 is a record: kind "fin" (sign and magnitude in thousandths),
\* "inf" or "nan"; "err" is ParseFloatError
F32(kind, neg, milli) == [kind |-> kind, neg |-> neg, milli |-> milli]
ParseFloatError == F32("err", FALSE, 0)

\* a parse that takes no sign
ParseF32Unsigned(tok) ==
    IF /\ Len(tok) > 0
       /\ \A i \in 1..Len(tok) : IsDigit(tok[i])
    THEN F32("fin", FALSE, 1000 * DecVal(tok))
    ELSE ParseFloatError

\* f32::from_str: optional sign, then digits with an optional decimal point
\* (at least one digit), or inf / infinity / nan in any case
ParseF32(tok) ==
    LET signed == Len(tok) > 0 /\ tok[1] \in {"+", "-"}
        neg == Len(tok) > 0 /\ tok[1] = "-"
        body == IF signed THEN Tail(tok) ELSE tok
        dot == FirstIndexOf(body, Dot)
        ip == IF dot = 0 THEN body ELSE SubSeq(body, 1, dot - 1)
        fp == IF dot = 0 THEN <<>> ELSE SubSeq(body, dot + 1, Len(body))
        low == ToLower(body)
    IN  IF low \in {<<"i", "n", "f">>, <<"i", "n", "f", "i", "n", "i", "t", "y">>}
            THEN F32("inf", neg, 0)
        ELSE IF low = <<"n", "a", "n">> THEN F32("nan", neg, 0)
        ELSE IF /\ Len(ip) + Len(fp) > 0
                /\ \A i \in 1..Len(ip) : IsDigit(ip[i])
                /\ \A i \in 1..Len(fp) : IsDigit(fp[i])
            THEN F32("fin", neg, 1000 * DecVal(ip) + Thousandths(fp))
        ELSE ParseFloatError

\* amount >= 0.0 as f32 compares: -0.0 is, NaN is not
NonNegative(a) ==
    \/ a.kind = "fin" /\ (~a.neg \/ a.milli = 0)
    \/ a.kind = "inf" /\ ~a.neg

\* ------------------------------------------------------------------------
\* Ingredient::from_str (lib.rs)
\* ------------------------------------------------------------------------
Ingredient(name, amount, unit) == [name |-> name, amount |-> amount, unit |-> unit]
NoIngredient == Ingredient(<<>>, ParseFloatError, "None")

\* Result<Ingredient, IngredientParsingError>, or the panic of an index out
\* of bounds
Ok(ingr) == [tag |-> "Ok", ingr |-> ingr, text |-> <<>>]
Err(e, text) == [tag |-> e, ingr |-> NoIngredient, text |-> text]
Panic == [tag |-> "Panic", ingr |-> NoIngredient, text |-> <<>>]
NoResult == [tag |-> "None", ingr |-> NoIngredient, text |-> <<>>]

\* input.split(" ").collect()
SplitInput(input) == Split(input, " ")

\* the name taken from the unit token on
NameOfFromUnit(split) == Join(SubSeq(split, 2, Len(split)), <<" ">>)

\* split[2..].join(" ")
NameOf(split) == Join(SubSeq(split, 3, Len(split)), <<" ">>)

from_str(input) ==
    LET split == SplitInput(input)
        amount == ParseF32(split[1])
    IN  IF amount = ParseFloatError THEN Err("InvalidAmount", <<>>)
        ELSE IF Len(split) < 2 THEN Panic
        ELSE IF UnitFromStr(split[2]) = "None" THEN Err("InvalidUnit", split[2])
        ELSE Ok(Ingredient(NameOf(split), amount, UnitFromStr(split[2])))

\* ------------------------------------------------------------------------
\* Recipes and their summaries (lib.rs, utils.rs)
\* ------------------------------------------------------------------------
EmptyMap == [x \in {} |-> x]

\* permutations of a finite set, as sequences
Perms(S) ==
    {f \in [1..Cardinality(S) -> S] : \A i, j \in 1..Cardinality(S) : f[i] = f[j] => i = j}

\* some enumeration of a finite set
RECURSIVE SetToSeq(_)
SetToSeq(S) ==
    IF S = {} THEN <<>>
    ELSE LET x == CHOOSE x \in S : TRUE IN <<x>> \o SetToSeq(S \ {x})

RECURSIVE Concat(_)
Concat(seqs) == IF Len(seqs) = 0 THEN <<>> ELSE Head(seqs) \o Concat(Tail(seqs))

\* struct Recipe
Recipe(name, tags, ingrs, steps) ==
    [name |-> name, tags |-> tags, ingredients |-> ingrs, steps |-> steps]

\* format!("{:30}", s): s padded with spaces on the right to SummaryWidth
SummaryWidth == 30
PadRight(s, w) == s \o [i \in 1..(IF Len(s) < w THEN w - Len(s) ELSE 0) |-> " "]

\* Recipe::summary
summary(r) ==
    PadRight(Replace(r.name, "-", " "), SummaryWidth)
        \o <<" ", "-", "-", " ">> \o Join(r.tags, <<",", " ">>)

\* str::trim for the space character
RECURSIVE Trim(_)
Trim(s) ==
    IF Len(s) > 0 /\ s[1] = " " THEN Trim(Tail(s))
    ELSE IF Len(s) > 0 /\ s[Len(s)] = " " THEN Trim(SubSeq(s, 1, Len(s) - 1))
    ELSE s

\* s.split("--").next(): the text before the first "--"
BeforeDashes(s) ==
    LET I == {i \in 1..(Len(s) - 1) : s[i] = "-" /\ s[i + 1] = "-"}
    IN  IF I = {} THEN s
        ELSE SubSeq(s, 1, (CHOOSE i \in I : \A j \in I : i <= j) - 1)

\* utils.rs recipe_name_from_summary
recipe_name_from_summary(s) == Replace(Trim(BeforeDashes(s)), " ", "-")

\* utils.rs get_jsons: the path of every entry of the directory, in the order
\* read_dir gives them for that directory
get_jsons(files) == SetToSeq(DOMAIN files)

\* a file whose text is not the YAML of a plan or of a recipe
MalformedText == [text |-> <<"?">>]

\* a directory entry that is itself a directory: fs::read_to_string fails on it
Directory == [dir |-> TRUE]

\* serde_yaml::from_str::<Recipe> succeeds: every field of the struct is there
IsRecipeContent(content) ==
    {"name", "tags", "ingredients", "steps"} \subseteq DOMAIN content

\* impl TryFrom<&PathBuf> for Recipe: panics on a path that does not exist,
\* Err on text that does not deserialize; exit is how a command that
\* propagates the result with ? ends
Recipe_try_from(files, path) ==
    IF path \notin DOMAIN files
    THEN [tag |-> "Panic", exit |-> "panic"]
    ELSE IF files[path] = Directory
    THEN [tag |-> "IOError", exit |-> "err"]
    ELSE IF ~IsRecipeContent(files[path])
    THEN [tag |-> "DeserializeError", exit |-> "err"]
    ELSE [tag |-> "Ok", exit |-> "ok"]

\* the first tag of a sequence of results that is not "Ok", "Ok" when all are:
\* what collect::<Result<Vec<_>, _>>() stops at
RECURSIVE FirstFailure(_)
FirstFailure(rs) ==
    IF Len(rs) = 0 THEN "Ok"
    ELSE IF Head(rs).tag # "Ok" THEN Head(rs).tag
    ELSE FirstFailure(Tail(rs))

\* utils.rs summarize_recipes: every path get_jsons returns is read with
\* Recipe::try_from and summarised; the first failure is the result
summarize_recipes(files) ==
    LET paths == get_jsons(files)
        rs == [i \in 1..Len(paths) |-> Recipe_try_from(files, paths[i])]
    IN  IF FirstFailure(rs) # "Ok"
        THEN [tag |-> FirstFailure(rs), summaries |-> <<>>]
        ELSE [tag |-> "Ok",
              summaries |-> [i \in 1..Len(paths) |-> summary(files[paths[i]])]]

\* ------------------------------------------------------------------------
\* Plans (plan.rs)
\* ------------------------------------------------------------------------
\* lib.rs WEEK
WEEK == <<"Sunday", "Monday", "Tuedsay", "Wednesday", "Thursday", "Friday", "Saturday">>

\* struct Plan
Plan(name, recipes, groceries, recipe_dir, plan_dir) ==
    [name |-> name, recipes |-> recipes, groceries |-> groceries,
     recipe_dir |-> recipe_dir, plan_dir |-> plan_dir]

\* Plan::default()
DefaultPlan == Plan(<<>>, EmptyMap, <<>>, <<>>, <<>>)

\* Plan::new
NewPlan(name, recipe_dir, plan_dir) == Plan(name, EmptyMap, <<>>, recipe_dir, plan_dir)

\* self.recipes.entry(day).or_insert(vec![]).push(name)
PushRecipe(p, day, name) ==
    [p EXCEPT !.recipes =
        IF day \in DOMAIN p.recipes
        THEN [p.recipes EXCEPT ![day] = Append(@, name)]
        ELSE p.recipes @@ (day :> <<name>>)]

\* the recipe names of a plan, days taken in the given order
NamesInOrder(p, order) == Concat([i \in 1..Len(order) |-> p.recipes[order[i]]])

\* to_recipes that leaves out the names that do not resolve
to_recipes_skipping(p, files, order) ==
    LET names == NamesInOrder(p, order)
        paths == [i \in 1..Len(names) |-> get_recipe_out_path(p.recipe_dir, names[i])]
        found(q) == q \in DOMAIN files
        kept == SelectSeq(paths, found)
    IN  [tag |-> "Ok", recipes |-> [i \in 1..Len(kept) |-> files[kept[i]]]]

\* Plan::to_recipes: every name is resolved through get_recipe_out_path and
\* Recipe::try_from, which panics when the path does not exist; order is the
\* iteration order of the HashMap's days
to_recipes(p, files, order) ==
    LET names == NamesInOrder(p, order)
        paths == [i \in 1..Len(names) |-> get_recipe_out_path(p.recipe_dir, names[i])]
    IN  IF \E i \in 1..Len(paths) : paths[i] \notin DOMAIN files
        THEN [tag |-> "Panic", recipes |-> <<>>]
        ELSE [tag |-> "Ok", recipes |-> [i \in 1..Len(paths) |-> files[paths[i]]]]

\* a key made of the name alone
KeyNameOnly(ingr) == ingr.name

\* format!("{}_{}", ingr.name, ingr.unit)
Key(ingr) == ingr.name \o <<"_">> \o UnitDisplay(ingr.unit)

\* an insert that replaces the entry
insert_replacing(m, k, v) == [x \in DOMAIN m \cup {k} |-> IF x = k THEN v ELSE m[x]]

\* ingr_map.entry(key).or_insert(ingr)
or_insert(m, k, v) == IF k \in DOMAIN m THEN m ELSE m @@ (k :> v)

\* the two nested for_each of compile_groceries
RECURSIVE IngrMap(_, _)
IngrMap(ingrs, m) ==
    IF Len(ingrs) = 0 THEN m
    ELSE IngrMap(Tail(ingrs), or_insert(m, Key(Head(ingrs)), Head(ingrs)))

AllIngredients(recipes) == Concat([i \in 1..Len(recipes) |-> recipes[i].ingredients])

\* ingr_map.into_iter().map(|(_, v)| v).collect(), in the map's order
Values(m, korder) == [i \in 1..Len(korder) |-> m[korder[i]]]

\* the plan file with the grocery list written too
SerializeWithGroceries(p) ==
    [name |-> p.name, recipes |-> p.recipes, groceries |-> p.groceries]

\* serde_yaml::to_string(&Plan): the fields not marked #[serde(skip)]
SerializePlan(p) == [name |-> p.name, recipes |-> p.recipes]

\* serde_yaml::from_str::<Plan>: skipped fields take their Default
DeserializePlan(content) ==
    Plan(content.name, content.recipes, <<>>, <<>>, <<>>)

\* Plan::write: the path written
PlanPath(p) == SetExtension(PathJoin(p.plan_dir, p.name), YAML)

\* Plan::write
write(p, pfiles) ==
    [x \in DOMAIN pfiles \cup {PlanPath(p)} |->
        IF x = PlanPath(p) THEN SerializePlan(p) ELSE pfiles[x]]

\* Plan::compile_groceries: the resolved recipes' ingredients folded into the
\* map, whose values become the grocery list; korder is the map's own order
compile_groceries(p, files, order, korder) ==
    LET r == to_recipes(p, files, order)
        m == IngrMap(AllIngredients(r.recipes), EmptyMap)
    IN  IF r.tag = "Panic"
        THEN [tag |-> "Panic", plan |-> p, recipes |-> <<>>]
        ELSE [tag |-> "Ok", plan |-> [p EXCEPT !.groceries = Values(m, korder)],
              recipes |-> r.recipes]

\* the keys compile_groceries' map ends with (empty when resolution panics)
GroceryKeys(p, files, order) ==
    DOMAIN IngrMap(AllIngredients(to_recipes(p, files, order).recipes), EmptyMap)

Outcome(ex, p, pfiles, comp, recs) ==
    [exit |-> ex, plan |-> p, planFiles |-> pfiles, compiled |-> comp,
     resolved |-> recs]

\* a plan_week that writes the plan before compiling the groceries
plan_week_write_first(p, files, pfiles, order, korder) ==
    LET c == compile_groceries(p, files, order, korder)
    IN  IF c.tag = "Panic"
        THEN Outcome("panic", p, write(p, pfiles), "panicked", <<>>)
        ELSE Outcome("ok", c.plan, write(p, pfiles), "returned", c.recipes)

\* plan_week once add_recipes has returned:
\* .compile_groceries().print_grocery_list().write()
plan_week(p, files, pfiles, order, korder) ==
    LET c == compile_groceries(p, files, order, korder)
    IN  IF c.tag = "Panic"
        THEN Outcome("panic", p, pfiles, "panicked", <<>>)
        ELSE Outcome("ok", c.plan, write(c.plan, pfiles), "returned", c.recipes)

\* ------------------------------------------------------------------------
\* Reading plans back and showing them (plan.rs, behold.rs, lib.rs)
\* ------------------------------------------------------------------------
\* serde_yaml::from_str::<Plan> succeeds: the fields without a default are there
IsPlanContent(content) == {"name", "recipes"} \subseteq DOMAIN content

\* impl TryFrom<&PathBuf> for Plan: panics on a path that does not exist,
\* Err on text that does not deserialize
Plan_try_from(pfiles, path) ==
    IF path \notin DOMAIN pfiles
    THEN [tag |-> "Panic", plan |-> DefaultPlan]
    ELSE IF ~IsPlanContent(pfiles[path])
    THEN [tag |-> "DeserializeError", plan |-> DefaultPlan]
    ELSE [tag |-> "Ok", plan |-> DeserializePlan(pfiles[path])]

Min(a, b) == IF a < b THEN a ELSE b

\* a get_latest_plans that loads every plan of the directory
get_latest_plans_untruncated(pfiles, n_plans) ==
    LET plan_paths == get_jsons(pfiles)
        rs == [i \in 1..Len(plan_paths) |-> Plan_try_from(pfiles, plan_paths[i])]
    IN  IF FirstFailure(rs) # "Ok"
        THEN [tag |-> FirstFailure(rs), paths |-> <<>>, plans |-> <<>>]
        ELSE [tag |-> "Ok", paths |-> plan_paths,
              plans |-> [i \in 1..Len(rs) |-> rs[i].plan]]

\* behold.rs get_latest_plans: the directory's paths, cut to the first n_plans
\* when there are more, each loaded with Plan::try_from
get_latest_plans(pfiles, n_plans) ==
    LET all == get_jsons(pfiles)
        plan_paths == IF Len(all) > n_plans
                      THEN SubSeq(all, 1, Min(n_plans, Len(all)))
                      ELSE all
        rs == [i \in 1..Len(plan_paths) |-> Plan_try_from(pfiles, plan_paths[i])]
    IN  IF FirstFailure(rs) # "Ok"
        THEN [tag |-> FirstFailure(rs), paths |-> <<>>, plans |-> <<>>]
        ELSE [tag |-> "Ok", paths |-> plan_paths,
              plans |-> [i \in 1..Len(rs) |-> rs[i].plan]]

\* struct PlanRow: the columns after Date
PlanRowColumns ==
    <<"Sunday", "Monday", "Tuesday", "Wednesday", "Thursday", "Friday", "Saturday">>

\* the separator PlanRow joins a day's recipes with
RowSeparator == <<"\n", " ">>

\* impl From<Plan> for PlanRow: each column looks its own label up in
\* p.recipes, vec![""] standing in for a day without entry
PlanRowFrom(p) ==
    [Date |-> p.name,
     columns |-> [i \in 1..Len(PlanRowColumns) |->
                    Join(IF PlanRowColumns[i] \in DOMAIN p.recipes
                         THEN p.recipes[PlanRowColumns[i]]
                         ELSE <<<<>>>>,
                         RowSeparator)]]

\* display_plan after the table: the plan, the day and the recipe picked at
\* the three prompts.  A prompt over no items fails; the recipe picked is read
\* with Recipe::try_from, which panics when its file is missing
BeholdExits(plans, files) ==
    IF Len(plans) = 0 THEN {"err"}
    ELSE UNION { IF DOMAIN plans[i].recipes = {} THEN {"err"}
                 ELSE UNION { { Recipe_try_from(files,
                                    get_recipe_out_path(RecipeDir,
                                        plans[i].recipes[day][k])).exit
                                : k \in DOMAIN plans[i].recipes[day] }
                              : day \in DOMAIN plans[i].recipes }
                 : i \in 1..Len(plans) }

\* ------------------------------------------------------------------------
\* Input lines for the parser: words joined by a separator
\* ------------------------------------------------------------------------
Word(text, ok, val) == [text |-> text, ok |-> ok, val |-> val]

\* first words: the amount each denotes, ok = FALSE when it is not a number
FirstWords ==
    { Word(<<"2">>, TRUE, F32("fin", FALSE, 2000)),
      Word(<<"2", ".", "5">>, TRUE, F32("fin", FALSE, 2500)),
      Word(<<"0">>, TRUE, F32("fin", FALSE, 0)),
      Word(<<"-", "1">>, TRUE, F32("fin", TRUE, 1000)),
      Word(<<"a", "b", "c">>, FALSE, ParseFloatError),
      Word(<<"l", "b">>, FALSE, ParseFloatError) }

\* second words: the unit each denotes, ok = FALSE outside the vocabulary
UnitWords ==
    { Word(<<"c", "a", "n">>, TRUE, "Can"),
      Word(<<"c", "u", "p">>, TRUE, "Cup"),
      Word(<<"g", "a", "l", "l", "o", "n">>, TRUE, "Gallon"),
      Word(<<"g", "r", "a", "m">>, TRUE, "Gram"),
      Word(<<"i", "t", "e", "m">>, TRUE, "Item"),
      Word(<<"k", "g">>, TRUE, "Kg"),
      Word(<<"l", "b">>, TRUE, "Lb"),
      Word(<<"o", "z">>, TRUE, "Oz"),
      Word(<<"t", "s", "p">>, TRUE, "Tsp"),
      Word(<<"t", "b", "s", "p">>, TRUE, "Tbsp"),
      Word(<<"L", "B">>, TRUE, "Lb"),
      Word(<<"C", "u", "p">>, TRUE, "Cup"),
      Word(<<"t", "B", "s", "P">>, TRUE, "Tbsp"),
      Word(<<"l", "i", "t", "e", "r", "s">>, FALSE, "None"),
      Word(<<"2">>, FALSE, "None") }

NameWords == {<<"b", "e", "e", "f">>, <<"c", "h", "u", "c", "k">>}

Space == <<" ">>
Separators == {Space, <<" ", " ">>, <<"\t">>}

\* a line is a first word, then possibly a second word, then possibly name
\* words, all joined by one separator
LineShape(first, second, rest, sep) ==
    [first |-> first, second |-> second, rest |-> rest, sep |-> sep]

LineShapes ==
    {LineShape(f, <<>>, <<>>, Space) : f \in FirstWords}
    \cup {LineShape(f, <<u>>, r, sep) :
            f \in FirstWords, u \in UnitWords,
            r \in SeqsOf(NameWords, 0, MaxNameTokens), sep \in Separators}

WordsOf(c) ==
    <<c.first.text>> \o [i \in 1..Len(c.second) |-> c.second[i].text] \o c.rest

TextOf(c) == Join(WordsOf(c), c.sep)

Lines == {TextOf(c) : c \in LineShapes}

\* ------------------------------------------------------------------------
\* The parser applied to one line
\* ------------------------------------------------------------------------
PathVars == <<path_name, out_path, path_pc>>
ParseVars == <<line, result, parse_pc>>
IngrVars == <<ingredients, entered, ingr_pc>>

PathIdle ==
    /\ path_name = <<>>
    /\ out_path = <<>>
    /\ path_pc = "off"

ParseIdle ==
    /\ line = <<>>
    /\ result = NoResult
    /\ parse_pc = "off"

IngrIdle ==
    /\ ingredients = <<>>
    /\ entered = <<>>
    /\ ingr_pc = "off"

MainVars == <<recipeFiles, planFiles, plan, pc, exit, compiled, resolved,
              loaded, cmd, plan_dir_before, day_log, listed, beheld>>

NotLoaded == [path |-> <<>>, plan |-> DefaultPlan]

\* no name pushed for any day index
NoDays == [d \in 0..(Len(WEEK) - 1) |-> <<>>]
NotListed == [tag |-> "None", paths |-> <<>>, summaries |-> <<>>]
NotBeheld == [tag |-> "None", n_plans |-> 0, paths |-> <<>>, plans |-> <<>>,
              rows |-> <<>>]

\* no command has run: both directories are empty
MainIdle ==
    /\ recipeFiles = EmptyMap
    /\ planFiles = EmptyMap
    /\ plan = DefaultPlan
    /\ pc = "shell"
    /\ exit = "none"
    /\ compiled = "none"
    /\ resolved = <<>>
    /\ loaded = NotLoaded
    /\ cmd = "none"
    /\ plan_dir_before = EmptyMap
    /\ day_log = NoDays
    /\ listed = NotListed
    /\ beheld = NotBeheld

InitParse ==
    /\ line \in Lines
    /\ result = NoResult
    /\ parse_pc = "input"
    /\ PathIdle
    /\ IngrIdle
    /\ MainIdle

ParseLine ==
    /\ parse_pc = "input"
    /\ result' = from_str(line)
    /\ parse_pc' = "parsed"
    /\ UNCHANGED <<line, PathVars, IngrVars, MainVars>>

NextParse == ParseLine

\* ------------------------------------------------------------------------
\* get_recipe_out_path applied to one name
\* ------------------------------------------------------------------------
InitPath ==
    /\ path_name \in Names
    /\ out_path = <<>>
    /\ path_pc = "input"
    /\ ParseIdle
    /\ IngrIdle
    /\ MainIdle

DerivePath ==
    /\ path_pc = "input"
    /\ out_path' = get_recipe_out_path(RecipeDir, path_name)
    /\ path_pc' = "done"
    /\ UNCHANGED <<path_name, ParseVars, IngrVars, MainVars>>

NextPath == DerivePath

\* ------------------------------------------------------------------------
\* add_ingredients (add.rs): the interactive loop
\* ------------------------------------------------------------------------
\* lines typed at the prompt: ok = TRUE for a well-formed line, with the
\* Ingredient it denotes
LoopLines ==
    { Word(<<"2", " ", "l", "b", " ", "b", "e", "e", "f", " ", "c", "h", "u", "c", "k">>,
           TRUE, Ingredient(<<"b", "e", "e", "f", " ", "c", "h", "u", "c", "k">>,
                            F32("fin", FALSE, 2000), "Lb")),
      Word(<<"1", " ", "C", "u", "p", " ", "f", "l", "o", "u", "r">>,
           TRUE, Ingredient(<<"f", "l", "o", "u", "r">>,
                            F32("fin", FALSE, 1000), "Cup")),
      Word(<<"2", " ", "l", "b">>, FALSE, NoIngredient),
      Word(<<"2">>, FALSE, NoIngredient),
      Word(<<"a", "b", "c", " ", "l", "b", " ", "b", "e", "e", "f">>,
           FALSE, NoIngredient),
      Word(<<"2", " ", "l", "i", "t", "e", "r", "s", " ", "b", "e", "e", "f">>,
           FALSE, NoIngredient) }

LoopTexts == {w.text : w \in LoopLines}

InitAdd ==
    /\ ingredients = <<>>
    /\ entered = <<>>
    /\ ingr_pc = "prompt"
    /\ PathIdle
    /\ ParseIdle
    /\ MainIdle

\* one iteration on a non-empty line: push the parsed ingredient, or print
\* the error and continue; an index out of bounds in from_str unwinds
EnterLine(l) ==
    /\ ingr_pc = "prompt"
    /\ Len(entered) < MaxEntries
    /\ entered' = Append(entered, l)
    /\ LET r == from_str(l)
       IN  /\ ingredients' = IF r.tag = "Ok" THEN Append(ingredients, r.ingr)
                             ELSE ingredients
           /\ ingr_pc' = IF r.tag = "Panic" THEN "panicked" ELSE "prompt"
    /\ UNCHANGED <<PathVars, ParseVars, MainVars>>

\* the empty line: break, Ok(ingredients)
EnterEmpty ==
    /\ ingr_pc = "prompt"
    /\ ingr_pc' = "returned"
    /\ UNCHANGED <<ingredients, entered, PathVars, ParseVars, MainVars>>

NextAdd ==
    \/ \E l \in LoopTexts : EnterLine(l)
    \/ EnterEmpty

\* ------------------------------------------------------------------------
\* The commands: add, plan, and reading a plan back
\* ------------------------------------------------------------------------
Amount(n) == F32("fin", FALSE, 1000 * n)
flour == <<"f", "l", "o", "u", "r">>
Flour == <<"F", "l", "o", "u", "r">>

\* recipe names and ingredient lists the add command is given
RecipeNames == {<<"a">>, <<"a", " ", "b">>, <<"a", "-", "b">>, <<"-", "a">>}
IngredientLists ==
    { <<Ingredient(flour, Amount(1), "Cup"), Ingredient(flour, Amount(1), "Lb"),
        Ingredient(flour, Amount(2), "Cup")>>,
      <<Ingredient(flour, Amount(2), "Cup"), Ingredient(Flour, Amount(3), "Cup")>> }
PlanDates == {<<"2", "0", "2", "2", "-", "0", "7", "-", "3", "1">>}

\* a plan file an earlier plan command left under the same date
OldPlanFiles ==
    LET old == [NewPlan(CHOOSE d \in PlanDates : TRUE, RecipeDir, PlanDir)
                   EXCEPT !.recipes = ("Saturday" :> <<<<"a">>>>)]
    IN  PlanPath(old) :> SerializePlan(old)

\* no command has run yet; the recipe directory is empty, the plan directory
\* is empty or holds the earlier plan
Init ==
    /\ recipeFiles = EmptyMap
    /\ planFiles \in {EmptyMap, OldPlanFiles}
    /\ plan = DefaultPlan
    /\ pc = "shell"
    /\ exit = "none"
    /\ compiled = "none"
    /\ resolved = <<>>
    /\ loaded = NotLoaded
    /\ cmd = "none"
    /\ plan_dir_before = EmptyMap
    /\ day_log = NoDays
    /\ listed = NotListed
    /\ beheld = NotBeheld
    /\ PathIdle
    /\ ParseIdle
    /\ IngrIdle

\* every command is a fresh process: nothing of the last one's memory is left
FreshProcess ==
    /\ compiled' = "none"
    /\ resolved' = <<>>
    /\ loaded' = NotLoaded
    /\ listed' = NotListed
    /\ beheld' = NotBeheld

\* add_recipe: the recipe typed in is written to its derived path.  The model
\* follows the add commands that come before the plan command.
AddRecipe(name, ingrs) ==
    /\ pc = "shell"
    /\ cmd # "plan"
    /\ cmd' = "add"
    /\ recipeFiles' =
          LET path == get_recipe_out_path(RecipeDir, name)
              r == Recipe(name, <<<<"t">>>>, ingrs, <<<<"s">>>>)
          IN  [x \in DOMAIN recipeFiles \cup {path} |->
                  IF x = path THEN r ELSE recipeFiles[x]]
    /\ plan' = DefaultPlan
    /\ exit' = "ok"
    /\ FreshProcess
    /\ UNCHANGED <<planFiles, pc, plan_dir_before, day_log>>
    /\ UNCHANGED <<PathVars, ParseVars, IngrVars>>

\* plan_week up to the first prompt of add_recipes
PlanStart(date) ==
    /\ pc = "shell"
    /\ cmd # "plan"
    /\ cmd' = "plan"
    /\ plan' = NewPlan(date, RecipeDir, PlanDir)
    /\ pc' = "add_recipes"
    /\ exit' = "none"
    /\ plan_dir_before' = planFiles
    /\ day_log' = NoDays
    /\ FreshProcess
    /\ UNCHANGED <<recipeFiles, planFiles>>
    /\ UNCHANGED <<PathVars, ParseVars, IngrVars>>

NumAssigned(p) ==
    Len(Concat([i \in 1..Len(SetToSeq(DOMAIN p.recipes)) |->
                    p.recipes[SetToSeq(DOMAIN p.recipes)[i]]]))

Assigned(p, day_idx, recipe_idx) ==
    PushRecipe(p, WEEK[day_idx + 1],
               recipe_name_from_summary(summarize_recipes(recipeFiles).summaries[recipe_idx]))

\* history: the name pushed at this pass, filed under the index picked at the
\* day prompt
Logged(log, day_idx, recipe_idx) ==
    [log EXCEPT ![day_idx] =
        Append(@, recipe_name_from_summary(summarize_recipes(recipeFiles).summaries[recipe_idx]))]

\* one pass of the add_recipes loop, answered "yes" to "Add another recipe?"
AssignAndContinue(day_idx, recipe_idx) ==
    /\ pc = "add_recipes"
    /\ recipe_idx \in 1..Len(summarize_recipes(recipeFiles).summaries)
    /\ NumAssigned(plan) + 1 < MaxAssign
    /\ plan' = Assigned(plan, day_idx, recipe_idx)
    /\ day_log' = Logged(day_log, day_idx, recipe_idx)
    /\ UNCHANGED <<recipeFiles, planFiles, pc, exit, compiled, resolved, loaded, cmd,
                   plan_dir_before, listed, beheld>>
    /\ UNCHANGED <<PathVars, ParseVars, IngrVars>>

\* the last pass of the loop, answered "no": add_recipes returns and plan_week
\* compiles, prints and writes
AssignAndFinish(day_idx, recipe_idx) ==
    /\ pc = "add_recipes"
    /\ recipe_idx \in 1..Len(summarize_recipes(recipeFiles).summaries)
    /\ LET p == Assigned(plan, day_idx, recipe_idx)
       IN  \E order \in Perms(DOMAIN p.recipes) :
           \E korder \in Perms(GroceryKeys(p, recipeFiles, order)) :
              LET o == plan_week(p, recipeFiles, planFiles, order, korder)
              IN  /\ plan' = o.plan
                  /\ planFiles' = o.planFiles
                  /\ exit' = o.exit
                  /\ compiled' = o.compiled
                  /\ resolved' = o.resolved
    /\ pc' = "shell"
    /\ day_log' = Logged(day_log, day_idx, recipe_idx)
    /\ UNCHANGED <<recipeFiles, loaded, cmd, plan_dir_before, listed, beheld>>
    /\ UNCHANGED <<PathVars, ParseVars, IngrVars>>

\* fuzzy_select over no recipes: add_recipes returns the io::Error
SelectNothing ==
    /\ pc = "add_recipes"
    /\ Len(summarize_recipes(recipeFiles).summaries) = 0
    /\ pc' = "shell"
    /\ exit' = "err"
    /\ UNCHANGED <<recipeFiles, planFiles, plan, compiled, resolved, loaded, cmd,
                   plan_dir_before, day_log, listed, beheld>>
    /\ UNCHANGED <<PathVars, ParseVars, IngrVars>>

\* Plan::try_from(&path) on a stored plan
LoadPlan(path) ==
    /\ pc = "shell"
    /\ path \in DOMAIN planFiles
    /\ loaded' = [path |-> path, plan |-> DeserializePlan(planFiles[path])]
    /\ listed' = NotListed
    /\ beheld' = NotBeheld
    /\ UNCHANGED <<recipeFiles, planFiles, plan, pc, exit, compiled, resolved, cmd,
                   plan_dir_before, day_log>>
    /\ UNCHANGED <<PathVars, ParseVars, IngrVars>>

\* display_recipes: the directory is listed and every entry summarised; a
\* failure is returned.  The search loop that follows writes nothing and has
\* no way out: it panics at once when there is nothing to select from, and
\* otherwise runs until the process is interrupted.
View ==
    /\ pc = "shell"
    /\ LET r == summarize_recipes(recipeFiles)
       IN  /\ listed' = [tag |-> r.tag, paths |-> get_jsons(recipeFiles),
                         summaries |-> r.summaries]
           /\ exit' = IF r.tag # "Ok" THEN "err"
                      ELSE IF Len(r.summaries) = 0 THEN "panic"
                      ELSE "none"
    /\ plan' = DefaultPlan
    /\ compiled' = "none"
    /\ resolved' = <<>>
    /\ loaded' = NotLoaded
    /\ beheld' = NotBeheld
    /\ UNCHANGED <<recipeFiles, planFiles, pc, cmd, plan_dir_before, day_log>>
    /\ UNCHANGED <<PathVars, ParseVars, IngrVars>>

\* display_plan: the latest plans are loaded and shown as rows, then one
\* recipe of one of them is picked and printed.  Nothing is written.
Behold(n_plans) ==
    /\ pc = "shell"
    /\ LET r == get_latest_plans(planFiles, n_plans)
       IN  /\ beheld' = [tag |-> r.tag, n_plans |-> n_plans, paths |-> r.paths,
                         plans |-> r.plans,
                         rows |-> [i \in 1..Len(r.plans) |-> PlanRowFrom(r.plans[i])]]
           /\ exit' \in IF r.tag = "Ok" THEN BeholdExits(r.plans, recipeFiles)
                        ELSE {"err"}
    /\ plan' = DefaultPlan
    /\ compiled' = "none"
    /\ resolved' = <<>>
    /\ loaded' = NotLoaded
    /\ listed' = NotListed
    /\ UNCHANGED <<recipeFiles, planFiles, pc, cmd, plan_dir_before, day_log>>
    /\ UNCHANGED <<PathVars, ParseVars, IngrVars>>

Next ==
    \/ \E name \in RecipeNames, ingrs \in IngredientLists : AddRecipe(name, ingrs)
    \/ \E date \in PlanDates : PlanStart(date)
    \/ \E d \in 0..MaxDayIdx, r \in 1..Cardinality(RecipeNames) : AssignAndContinue(d, r)
    \/ \E d \in 0..MaxDayIdx, r \in 1..Cardinality(RecipeNames) : AssignAndFinish(d, r)
    \/ SelectNothing
    \/ \E path \in DOMAIN planFiles : LoadPlan(path)
    \/ View
    \/ \E n_plans \in {0, MaxNPlans} : Behold(n_plans)

vars == <<PathVars, ParseVars, IngrVars, MainVars>>

Spec == Init /\ [][Next]_vars

SpecAdd == InitAdd /\ [][NextAdd]_vars

SpecPath == InitPath /\ [][NextPath]_vars
SpecParse == InitParse /\ [][NextParse]_vars

\* ------------------------------------------------------------------------
\* The behold command over a plan directory of several plans
\* ------------------------------------------------------------------------
\* the dates the stored plans are named after
DateOf(i) == <<"2", "0", "2", "2", "-", "0", "7", "-", "0", Digits[i + 1]>>
BeholdDates == {DateOf(i) : i \in 1..MaxPlanFiles}

\* the plan the plan command leaves for a date: recipe "a" on Sunday
StoredPlan(date) ==
    [NewPlan(date, RecipeDir, PlanDir) EXCEPT !.recipes = ("Sunday" :> <<<<"a">>>>)]

\* a plan directory with one file per date of S, the file of date bad (if any)
\* holding text that is no plan
PlanDirOf(S, bad) ==
    [path \in {PlanPath(StoredPlan(d)) : d \in S} |->
        LET d == CHOOSE d \in S : PlanPath(StoredPlan(d)) = path
        IN  IF d = bad THEN MalformedText ELSE SerializePlan(StoredPlan(d))]

BeholdDirs ==
    {PlanDirOf(S, <<>>) : S \in SUBSET BeholdDates}
        \cup UNION {{PlanDirOf(S, bad) : bad \in S} : S \in SUBSET BeholdDates}

\* the recipe directory holds recipe "a"; the plan directory holds up to
\* MaxPlanFiles plan files
InitBehold ==
    /\ recipeFiles = (get_recipe_out_path(RecipeDir, <<"a">>)
                         :> Recipe(<<"a">>, <<<<"t">>>>, <<>>, <<<<"s">>>>))
    /\ planFiles \in BeholdDirs
    /\ plan = DefaultPlan
    /\ pc = "shell"
    /\ exit = "none"
    /\ compiled = "none"
    /\ resolved = <<>>
    /\ loaded = NotLoaded
    /\ cmd = "none"
    /\ plan_dir_before = EmptyMap
    /\ day_log = NoDays
    /\ listed = NotListed
    /\ beheld = NotBeheld
    /\ PathIdle
    /\ ParseIdle
    /\ IngrIdle

NextBehold == \E n_plans \in 0..MaxNPlans : Behold(n_plans)

SpecBehold == InitBehold /\ [][NextBehold]_vars

FewTokensMissingFields ==
    parse_pc = "parsed" =>
        \A c \in LineShapes :
            (Len(WordsOf(c)) < 3 /\ TextOf(c) = line)
            => result.tag = "NoIngredient"

WellFormedText(l) == \E w \in LoopLines : w.text = l /\ w.ok
DenotedIngredient(l) == (CHOOSE w \in LoopLines : w.text = l).val

\* C8: no malformed line ends the process or changes the accepted list: the
\* list is exactly the well-formed lines entered so far, in entry order.
MalformedLinesRecovered ==
    /\ ingr_pc # "panicked"
    /\ LET good == SelectSeq(entered, WellFormedText)
       IN  ingredients = [i \in 1..Len(good) |-> DenotedIngredient(good[i])]

\* ------------------------------------------------------------------------
\* Properties of the plan command
\* ------------------------------------------------------------------------
SameKey(a, b) == a.name = b.name /\ a.unit = b.unit
Range(f) == {f[x] : x \in DOMAIN f}

\* the recipe names a plan assigns, over all days
AssignedNames(p) == UNION {Range(p.recipes[d]) : d \in DOMAIN p.recipes}

\* the assigned names with no stored recipe at their path
UnresolvedNames ==
    {n \in AssignedNames(plan) :
        get_recipe_out_path(RecipeDir, n) \notin DOMAIN recipeFiles}

\* C1: for every (name, unit) key among the resolved recipes' ingredients, the
\* grocery list holds the amount of the key's first occurrence in traversal
\* order: later occurrences are dropped, amounts are not summed.
FirstSeenAmountWins ==
    compiled = "returned" =>
        LET trav == AllIngredients(resolved)
        IN  \A i \in 1..Len(trav) :
                (\A j \in 1..(i - 1) : ~SameKey(trav[j], trav[i]))
                => /\ \E k \in 1..Len(plan.groceries) : SameKey(plan.groceries[k], trav[i])
                   /\ \A k \in 1..Len(plan.groceries) :
                          SameKey(plan.groceries[k], trav[i])
                          => plan.groceries[k].amount = trav[i].amount

\* two different recipes were compiled, flour/Cup occurring with amount 2
\* first and amount 1 later, and the list holds 2
FirstSeenAmountKept ==
    /\ compiled = "returned"
    /\ Len(resolved) = 2
    /\ resolved[1].ingredients[1] = Ingredient(flour, Amount(2), "Cup")
    /\ resolved[2].ingredients[1] = Ingredient(flour, Amount(1), "Cup")
    /\ \E k \in 1..Len(plan.groceries) :
          plan.groceries[k] = Ingredient(flour, Amount(2), "Cup")

\* C2: the grocery list has exactly one entry for each distinct (name, unit)
\* pair among the ingredients of the recipes the plan references, and no
\* other entry.
OneEntryPerNameAndUnit ==
    compiled = "returned" =>
        LET referenced == {recipeFiles[get_recipe_out_path(RecipeDir, n)] :
                              n \in AssignedNames(plan)}
            pairs == UNION {{<<i.name, i.unit>> : i \in Range(r.ingredients)} :
                               r \in referenced}
            pairAt(k) == <<plan.groceries[k].name, plan.groceries[k].unit>>
        IN  /\ \A k \in 1..Len(plan.groceries) : pairAt(k) \in pairs
            /\ \A pr \in pairs :
                  Cardinality({k \in 1..Len(plan.groceries) : pairAt(k) = pr}) = 1

\* flour/Cup, flour/Lb and Flour/Cup were kept as three entries
UnitAndCaseKeptApart ==
    /\ compiled = "returned"
    /\ Len(plan.groceries) = 3
    /\ \E k \in 1..3 : plan.groceries[k].name = flour /\ plan.groceries[k].unit = "Lb"
    /\ \E k \in 1..3 : plan.groceries[k].name = Flour /\ plan.groceries[k].unit = "Cup"
    /\ \E k \in 1..3 : plan.groceries[k].name = flour /\ plan.groceries[k].unit = "Cup"

\* C3 as stated: with an unresolved name, compile_groceries hands an error
\* result back to its caller and there is no grocery list.
UnresolvedGivesErrorResult ==
    (pc = "shell" /\ UnresolvedNames # {})
    => (compiled = "error" /\ plan.groceries = <<>>)

\* C3 amended: with an unresolved name, compile_groceries does not return at
\* all: the resolution panics, the command ends by that panic, and there is
\* no grocery list, not even a partial one.
UnresolvedPanics ==
    (pc = "shell" /\ UnresolvedNames # {})
    => (compiled = "panicked" /\ exit = "panic" /\ plan.groceries = <<>>)

\* a plan with an unresolved name reached compile_groceries, which panicked
UnresolvedPanicked ==
    /\ pc = "shell"
    /\ UnresolvedNames # {}
    /\ compiled = "panicked"

\* C4: a plan command that ends with an unresolved name leaves the plan
\* directory as it was.
AbortLeavesPlanDir ==
    (pc = "shell" /\ cmd = "plan" /\ UnresolvedNames # {})
    => planFiles = plan_dir_before

\* the command ended on an unresolved name and the earlier plan file of its
\* date is still the one stored
AbortedOverOldPlanFile ==
    /\ pc = "shell"
    /\ exit = "panic"
    /\ UnresolvedNames # {}
    /\ planFiles = OldPlanFiles

\* the last plan command wrote its Plan, still held in plan, to its path
PlanWasSaved == pc = "shell" /\ exit = "ok" /\ compiled = "returned"

\* C10: a plan file holds a name and an assignment map and nothing else, those
\* of the plan saved; the plan read back from the path just written has the
\* saved plan's name and map and an empty grocery list.
SavedPlanRoundTrip ==
    /\ \A path \in DOMAIN planFiles : DOMAIN planFiles[path] = {"name", "recipes"}
    /\ PlanWasSaved =>
          /\ PlanPath(plan) \in DOMAIN planFiles
          /\ planFiles[PlanPath(plan)].name = plan.name
          /\ planFiles[PlanPath(plan)].recipes = plan.recipes
    /\ (PlanWasSaved /\ loaded.path = PlanPath(plan)) =>
          /\ loaded.plan.name = plan.name
          /\ loaded.plan.recipes = plan.recipes
          /\ loaded.plan.groceries = <<>>

\* a plan saved with a non-empty grocery list was read back
LoadedPlanHadGroceries ==
    /\ PlanWasSaved
    /\ loaded.path = PlanPath(plan)
    /\ plan.groceries # <<>>
    /\ loaded.plan.groceries = <<>>

\* ------------------------------------------------------------------------
\* The view command over a recipe directory with entries of several kinds
\* ------------------------------------------------------------------------
\* the entries a recipe directory is made of: recipes saved by the add
\* command, a text file, a sub-directory
TextFile == <<"r", "/", "n", ".", "t", "x", "t">>
SubDir == <<"r", "/", "d">>
ListedNames == {<<"a">>, <<"b">>, <<"c">>}

\* what an entry can hold (Absent: the entry is not there)
Absent == [absent |-> TRUE]
RecipeOf(name) == Recipe(name, <<<<"t">>>>, <<>>, <<<<"s">>>>)
EntryKinds(path) ==
    IF path = SubDir THEN {Absent, Directory}
    ELSE IF path = TextFile THEN {Absent, MalformedText, RecipeOf(<<"n">>)}
    ELSE {Absent, MalformedText} \cup
         {RecipeOf(name) : name \in {n \in ListedNames :
                                        get_recipe_out_path(RecipeDir, n) = path}}

EntryPaths ==
    {get_recipe_out_path(RecipeDir, n) : n \in ListedNames} \cup {TextFile, SubDir}

ListDirs ==
    {[path \in {q \in EntryPaths : e[q] # Absent} |-> e[path]] :
        e \in {f \in [EntryPaths -> UNION {EntryKinds(q) : q \in EntryPaths}] :
                   \A q \in EntryPaths : f[q] \in EntryKinds(q)}}

InitList ==
    /\ recipeFiles \in ListDirs
    /\ planFiles = EmptyMap
    /\ plan = DefaultPlan
    /\ pc = "shell"
    /\ exit = "none"
    /\ compiled = "none"
    /\ resolved = <<>>
    /\ loaded = NotLoaded
    /\ cmd = "none"
    /\ plan_dir_before = EmptyMap
    /\ day_log = NoDays
    /\ listed = NotListed
    /\ beheld = NotBeheld
    /\ PathIdle
    /\ ParseIdle
    /\ IngrIdle

NextList == View

SpecList == InitList /\ [][NextList]_vars

\* ------------------------------------------------------------------------
\* A plan command over the whole week, then the behold command
\* ------------------------------------------------------------------------
\* recipes "a" and "b" have been added; no plan has been made yet
InitRow ==
    /\ recipeFiles = [path \in {get_recipe_out_path(RecipeDir, n) : n \in {<<"a">>, <<"b">>}}
                         |-> RecipeOf(CHOOSE n \in {<<"a">>, <<"b">>} :
                                         get_recipe_out_path(RecipeDir, n) = path)]
    /\ planFiles = EmptyMap
    /\ plan = DefaultPlan
    /\ pc = "shell"
    /\ exit = "ok"
    /\ compiled = "none"
    /\ resolved = <<>>
    /\ loaded = NotLoaded
    /\ cmd = "add"
    /\ plan_dir_before = EmptyMap
    /\ day_log = NoDays
    /\ listed = NotListed
    /\ beheld = NotBeheld
    /\ PathIdle
    /\ ParseIdle
    /\ IngrIdle

\* the day prompt offers every entry of WEEK
NextRow ==
    \/ \E date \in PlanDates : PlanStart(date)
    \/ \E d \in 0..(Len(WEEK) - 1), r \in 1..2 : AssignAndContinue(d, r)
    \/ \E d \in 0..(Len(WEEK) - 1), r \in 1..2 : AssignAndFinish(d, r)
    \/ \E n_plans \in {0, MaxNPlans} : Behold(n_plans)

SpecRow == InitRow /\ [][NextRow]_vars

\* ------------------------------------------------------------------------
\* Properties of the recipe listing
\* ------------------------------------------------------------------------
\* C12: every path get_jsons returns has the extension yaml (other entries
\* are skipped), and summarize_recipes fails only when one of the entries
\* with that extension is malformed.
ListingKeepsYamlOnly ==
    listed.tag # "None" =>
        /\ \A i \in 1..Len(listed.paths) : Extension(listed.paths[i]) = YAML
        /\ listed.tag # "Ok" =>
               \E path \in DOMAIN recipeFiles :
                   /\ Extension(path) = YAML
                   /\ ~IsRecipeContent(recipeFiles[path])

\* ------------------------------------------------------------------------
\* Properties of the behold command
\* ------------------------------------------------------------------------
AllPlansValid == \A path \in DOMAIN planFiles : IsPlanContent(planFiles[path])

\* C11: over a plan directory of k valid plan files, get_latest_plans with
\* n_plans = n returns exactly min(n, k) plans, never more than n, and they
\* come from min(n, k) distinct files of the directory.
LatestPlansTruncated ==
    (beheld.tag # "None" /\ AllPlansValid) =>
        LET k == Cardinality(DOMAIN planFiles)
            names == {beheld.plans[i].name : i \in 1..Len(beheld.plans)}
        IN  /\ beheld.tag = "Ok"
            /\ Len(beheld.plans) = Min(beheld.n_plans, k)
            /\ Len(beheld.plans) <= beheld.n_plans
            /\ Cardinality(names) = Len(beheld.plans)
            /\ names \subseteq {planFiles[path].name : path \in DOMAIN planFiles}

\* five valid plan files were listed with n_plans = 3 and three plans came back
FiveFilesThreeReturned ==
    /\ beheld.tag = "Ok"
    /\ AllPlansValid
    /\ Cardinality(DOMAIN planFiles) = 5
    /\ beheld.n_plans = 3
    /\ Len(beheld.plans) = 3

\* ------------------------------------------------------------------------
\* Properties of the recipe directory across commands
\* ------------------------------------------------------------------------
\* C13: a recipe is immutable once saved: no command changes or removes the
\* stored content of a recipe file that exists, whatever name a later add is
\* given.
SavedRecipesImmutable ==
    [][\A path \in DOMAIN recipeFiles :
            /\ path \in DOMAIN recipeFiles'
            /\ recipeFiles'[path] = recipeFiles[path]]_vars

\* ------------------------------------------------------------------------
\* Properties of the plan table
\* ------------------------------------------------------------------------
\* C14: for each of the seven weekdays d, the PlanRow built from the plan
\* shows in column d exactly the recipes assigned to d in add_recipes, in
\* assignment order, and no assignment is stored under a key that no column
\* of the PlanRow looks up.
RowShowsEveryAssignment ==
    (cmd = "plan" /\ beheld.tag = "Ok" /\ Len(beheld.rows) = 1) =>
        /\ \A d \in 0..(Len(WEEK) - 1) :
               beheld.rows[1].columns[d + 1] = Join(day_log[d], RowSeparator)
        /\ DOMAIN beheld.plans[1].recipes
               \subseteq {PlanRowColumns[i] : i \in 1..Len(PlanRowColumns)}

====
